---- MODULE Spec2Model ----
(***************************************************************************)
(* Model of pubsub_logging/async_handler.py: AsyncPubsubHandler (emit,     *)
(* flush, close) and PubsubWorker.send_loop, sharing one                   *)
(* multiprocessing.JoinableQueue and one multiprocessing.Value exit flag.  *)
(*                                                                         *)
(* Threads of the model:                                                   *)
(*   - producers, which log records through logging.Handler.handle; that   *)
(*     method wraps emit in the handler's re-entrant lock (self.lock), the *)
(*     same lock flush and close take;                                     *)
(*   - one control thread, which calls flush() and close();                *)
(*   - the worker processes started by the constructor.                    *)
(***************************************************************************)
EXTENDS Integers, Sequences, FiniteSets, TLC

\* BATCH_SIZE is 1000 in the source; the model runs it scaled down.
BATCH_SIZE == 2

\* Bounds of the model.
NumWorkers == 2          \* worker_num given to the constructor
NumProducers == 2        \* producer threads
MaxRecords == 3          \* records the producers submit in all
MaxRecoverable == 2      \* RecoverableError raised at most this often
MaxFlush == 1            \* flush() calls of the control thread
MaxClose == 2            \* close() calls of the control thread

Workers == 1..NumWorkers
Producers == 1..NumProducers
\* Records are opaque to the handler: a record is named by the position at
\* which emit received it.
Records == 1..MaxRecords

VARIABLES
    buf,          \* self._buf: the in-progress batch
    q,            \* self._q: batches waiting in the JoinableQueue
    unfinished,   \* self._q._unfinished_tasks: put() minus task_done()
    should_exit,  \* self._worker.should_exit.value
    lock,         \* recursion level of self.lock (held by the control thread)
    ctl,          \* position of the control thread
    sent,         \* sent[p]: records producer p has submitted
    topic_calls,  \* get_or_create_topic calls of the constructor
    wpc,          \* wpc[w]: position of worker w in send_loop
    wlogs,        \* wlogs[w]: the local `logs` of worker w
    wbody,        \* wbody[w]: the local `body` of worker w
    \* history of the run, read by the properties only
    emitted,      \* records in the order emit received them
    sealed,       \* batches pushed by emit
    tried,        \* tried[r]: publish_body calls whose batch held r
    delivered,    \* delivered[r]: successful publish_body calls holding r
    requeued,     \* requeued[r]: q.put(logs) of line 80 holding r
    firstTry,     \* firstTry[r]: the batch of the first call holding r
    oks,          \* publish_body calls that returned
    recov,        \* RecoverableError raised so far
    acks,         \* q.task_done() calls so far
    racks,        \* q.task_done() calls that followed a requeue
    wretry,       \* wretry[w]: worker w caught RecoverableError in this turn
    flushes,      \* flush() calls that returned
    closes        \* close() calls that returned

vars == <<buf, q, unfinished, should_exit, lock, ctl, sent, topic_calls,
          wpc, wlogs, wbody,
          emitted, sealed, tried, delivered, requeued, firstTry, oks, recov,
          acks, racks, wretry, flushes, closes>>

handlerVars == <<buf, q, unfinished, should_exit, lock, ctl, sent, topic_calls>>
workerVars == <<wpc, wlogs, wbody>>
histVars == <<emitted, sealed, tried, delivered, requeued, firstTry, oks,
              recov, acks, racks, wretry, flushes, closes>>

----------------------------------------------------------------------------
\* Helpers

Range(s) == {s[i] : i \in 1..Len(s)}

\* The history counters stop at MaxCount, a value that no behaviour with at
\* most MaxRecoverable recoverable failures goes beyond.
MaxCount == MaxRecords + MaxRecoverable

Counted(n) == IF n < MaxCount THEN n + 1 ELSE n

Inc(f, s) ==
    [r \in DOMAIN f |-> IF r \in Range(s) THEN Counted(f[r]) ELSE f[r]]

\* fmt(r) followed by compat_urlsafe_b64encode: one payload per record.
Encode(r) == <<"b64", r>>

\* A body whose messages come in the reverse order of the records.
BodyReversed(logs) ==
    [messages |-> [i \in 1..Len(logs) |->
                      [data |-> Encode(logs[Len(logs) + 1 - i])]]]

\* body = {'messages': [{'data': ...} for r in logs]}
Body(logs) == [messages |-> [i \in 1..Len(logs) |-> [data |-> Encode(logs[i])]]]

NoBody == [messages |-> <<>>]

----------------------------------------------------------------------------
\* AsyncPubsubHandler.__init__: empty queue and buffer, workers started.

\* Lines 109-113: the handler's own fields, and nothing recorded yet.
NewHandler ==
    /\ buf = <<>>
    /\ q = <<>>
    /\ unfinished = 0
    /\ should_exit = 0
    /\ lock = 0
    /\ sent = [p \in Producers |-> 0]
    /\ wlogs = [w \in Workers |-> <<>>]
    /\ wbody = [w \in Workers |-> NoBody]
    /\ emitted = <<>>
    /\ sealed = {}
    /\ tried = [r \in Records |-> 0]
    /\ delivered = [r \in Records |-> 0]
    /\ requeued = [r \in Records |-> 0]
    /\ firstTry = [r \in Records |-> <<>>]
    /\ oks = 0
    /\ recov = 0
    /\ acks = 0
    /\ racks = 0
    /\ wretry = [w \in Workers |-> FALSE]
    /\ flushes = 0
    /\ closes = 0

\* The state in which __init__ returns: the topic ensured, every worker
\* process started.
Init ==
    /\ NewHandler
    /\ ctl = "idle"
    /\ topic_calls = 1
    /\ wpc = [w \in Workers |-> "loop"]

----------------------------------------------------------------------------
\* AsyncPubsubHandler.emit, called by logging.Handler.handle with self.lock
\* held: the producer gets the lock only while no other thread holds it.

\* An emit that tests the length of the buffer before it appends.
EmitSealsLate(p) ==
    /\ lock = 0
    /\ Len(emitted) < MaxRecords
    /\ LET record == Len(emitted) + 1
           appended == Append(buf, record)
       IN  /\ sent' = [sent EXCEPT ![p] = @ + 1]
           /\ emitted' = Append(emitted, record)
           /\ IF Len(buf) = BATCH_SIZE
              THEN /\ q' = Append(q, appended)
                   /\ unfinished' = unfinished + 1
                   /\ buf' = <<>>
                   /\ sealed' = sealed \cup {appended}
              ELSE /\ buf' = appended
                   /\ UNCHANGED <<q, unfinished, sealed>>
    /\ UNCHANGED <<should_exit, lock, ctl, topic_calls>>
    /\ UNCHANGED workerVars
    /\ UNCHANGED <<tried, delivered, requeued, firstTry, oks, recov, acks,
                   racks, wretry, flushes, closes>>

\* An emit that pushes the full buffer and goes on appending to it.
EmitKeepsBuffer(p) ==
    /\ lock = 0
    /\ Len(emitted) < MaxRecords
    /\ LET record == Len(emitted) + 1
           appended == Append(buf, record)
       IN  /\ sent' = [sent EXCEPT ![p] = @ + 1]
           /\ emitted' = Append(emitted, record)
           /\ buf' = appended
           /\ IF Len(appended) = BATCH_SIZE
              THEN /\ q' = Append(q, appended)
                   /\ unfinished' = unfinished + 1
                   /\ sealed' = sealed \cup {appended}
              ELSE UNCHANGED <<q, unfinished, sealed>>
    /\ UNCHANGED <<should_exit, lock, ctl, topic_calls>>
    /\ UNCHANGED workerVars
    /\ UNCHANGED <<tried, delivered, requeued, firstTry, oks, recov, acks,
                   racks, wretry, flushes, closes>>

Emit(p) ==
    /\ lock = 0
    /\ Len(emitted) < MaxRecords
    /\ LET record == Len(emitted) + 1
           appended == Append(buf, record)
       IN  /\ sent' = [sent EXCEPT ![p] = @ + 1]
           /\ emitted' = Append(emitted, record)
           /\ IF Len(appended) = BATCH_SIZE
              THEN /\ q' = Append(q, appended)
                   /\ unfinished' = unfinished + 1
                   /\ buf' = <<>>
                   /\ sealed' = sealed \cup {appended}
              ELSE /\ buf' = appended
                   /\ UNCHANGED <<q, unfinished, sealed>>
    /\ UNCHANGED <<should_exit, lock, ctl, topic_calls>>
    /\ UNCHANGED workerVars
    /\ UNCHANGED <<tried, delivered, requeued, firstTry, oks, recov, acks,
                   racks, wretry, flushes, closes>>

----------------------------------------------------------------------------
\* AsyncPubsubHandler.flush

\* A flush that pushes the buffer without testing it.
SealPartialAlways ==
    /\ q' = Append(q, buf)
    /\ unfinished' = unfinished + 1
    /\ buf' = <<>>

\* Lines 141-143: push the partial buffer, if any.
SealPartial ==
    IF buf # <<>>
    THEN /\ q' = Append(q, buf)
         /\ unfinished' = unfinished + 1
         /\ buf' = <<>>
    ELSE UNCHANGED <<q, unfinished, buf>>

\* flush() up to the q.join() call.
FlushEnter ==
    /\ ctl = "idle"
    /\ flushes < MaxFlush
    /\ lock = 0
    /\ lock' = 1
    /\ SealPartial
    /\ ctl' = "f_join"
    /\ UNCHANGED <<should_exit, sent, topic_calls>>
    /\ UNCHANGED workerVars
    /\ UNCHANGED histVars

\* q.join() returns, the lock is released, flush() returns.
FlushJoin ==
    /\ ctl = "f_join"
    /\ unfinished = 0
    /\ lock' = lock - 1
    /\ ctl' = "idle"
    /\ flushes' = flushes + 1
    /\ UNCHANGED <<buf, q, unfinished, should_exit, sent, topic_calls>>
    /\ UNCHANGED workerVars
    /\ UNCHANGED <<emitted, sealed, tried, delivered, requeued, firstTry, oks,
                   recov, acks, racks, wretry, closes>>

----------------------------------------------------------------------------
\* AsyncPubsubHandler.close

\* A close() that waits for the queue without pushing the buffer first.
CloseEnterNoFlush ==
    /\ ctl = "idle"
    /\ closes < MaxClose
    /\ lock = 0
    /\ lock' = 2
    /\ ctl' = "c_join"
    /\ UNCHANGED <<buf, q, unfinished, should_exit, sent, topic_calls>>
    /\ UNCHANGED workerVars
    /\ UNCHANGED histVars

\* close() takes the lock and calls flush(), which takes it again.
CloseEnter ==
    /\ ctl = "idle"
    /\ closes < MaxClose
    /\ lock = 0
    /\ lock' = 2
    /\ SealPartial
    /\ ctl' = "c_join"
    /\ UNCHANGED <<should_exit, sent, topic_calls>>
    /\ UNCHANGED workerVars
    /\ UNCHANGED histVars

\* A close() that does not wait for the queue before it sets the flag.
CloseFlushJoinNoWait ==
    /\ ctl = "c_join"
    /\ lock' = lock - 1
    /\ ctl' = "c_exit"
    /\ UNCHANGED <<buf, q, unfinished, should_exit, sent, topic_calls>>
    /\ UNCHANGED workerVars
    /\ UNCHANGED histVars

\* The q.join() of the flush() inside close() returns.
CloseFlushJoin ==
    /\ ctl = "c_join"
    /\ unfinished = 0
    /\ lock' = lock - 1
    /\ ctl' = "c_exit"
    /\ UNCHANGED <<buf, q, unfinished, should_exit, sent, topic_calls>>
    /\ UNCHANGED workerVars
    /\ UNCHANGED histVars

\* self._worker.should_exit.value = 1
CloseSetExit ==
    /\ ctl = "c_exit"
    /\ should_exit' = 1
    /\ ctl' = "c_wait"
    /\ UNCHANGED <<buf, q, unfinished, lock, sent, topic_calls>>
    /\ UNCHANGED workerVars
    /\ UNCHANGED histVars

\* p.join() for every worker, then the lock is released and the superclass's
\* close() runs (it touches the logging module's handler registry only).
CloseJoinWorkers ==
    /\ ctl = "c_wait"
    /\ \A w \in Workers : wpc[w] \in {"exited", "dead"}
    /\ lock' = lock - 1
    /\ ctl' = "idle"
    /\ closes' = closes + 1
    /\ UNCHANGED <<buf, q, unfinished, should_exit, sent, topic_calls>>
    /\ UNCHANGED workerVars
    /\ UNCHANGED <<emitted, sealed, tried, delivered, requeued, firstTry, oks,
                   recov, acks, racks, wretry, flushes>>

----------------------------------------------------------------------------
\* PubsubWorker.send_loop

\* A loop test that also leaves the loop when there is nothing to send.
WorkerLoopStopsWhenIdle(w) ==
    /\ wpc[w] = "loop"
    /\ wpc' = [wpc EXCEPT ![w] = IF should_exit = 0 /\ q # <<>>
                                    THEN "get" ELSE "exited"]
    /\ UNCHANGED <<wlogs, wbody>>
    /\ UNCHANGED handlerVars
    /\ UNCHANGED histVars

\* while not self.should_exit.value
WorkerLoop(w) ==
    /\ wpc[w] = "loop"
    /\ wpc' = [wpc EXCEPT ![w] = IF should_exit = 0 THEN "get" ELSE "exited"]
    /\ UNCHANGED <<wlogs, wbody>>
    /\ UNCHANGED handlerVars
    /\ UNCHANGED histVars

\* logs = q.get(block=True, timeout=1)
WorkerGet(w) ==
    /\ wpc[w] = "get"
    /\ q # <<>>
    /\ wlogs' = [wlogs EXCEPT ![w] = Head(q)]
    /\ q' = Tail(q)
    /\ wpc' = [wpc EXCEPT ![w] = "publish"]
    /\ UNCHANGED wbody
    /\ UNCHANGED <<buf, unfinished, should_exit, lock, ctl, sent, topic_calls>>
    /\ UNCHANGED histVars

\* except Empty: continue
WorkerEmpty(w) ==
    /\ wpc[w] = "get"
    /\ q = <<>>
    /\ wpc' = [wpc EXCEPT ![w] = "loop"]
    /\ UNCHANGED <<wlogs, wbody>>
    /\ UNCHANGED handlerVars
    /\ UNCHANGED histVars

\* The history of one publish_body call with the batch of worker w.
Called(w) ==
    /\ tried' = Inc(tried, wlogs[w])
    /\ firstTry' = [r \in Records |->
                      IF r \in Range(wlogs[w]) /\ tried[r] = 0
                      THEN wlogs[w] ELSE firstTry[r]]

\* Lines 73-76, publish_body returns.
WorkerPublishOk(w) ==
    /\ wpc[w] = "publish"
    /\ wbody' = [wbody EXCEPT ![w] = Body(wlogs[w])]
    /\ Called(w)
    /\ delivered' = Inc(delivered, wlogs[w])
    /\ oks' = oks + 1
    /\ wpc' = [wpc EXCEPT ![w] = "task_done"]
    /\ UNCHANGED wlogs
    /\ UNCHANGED handlerVars
    /\ UNCHANGED <<emitted, sealed, requeued, recov, acks, racks, wretry,
                   flushes, closes>>

\* A send_loop that acknowledges a batch whose publish failed recoverably
\* without putting it back.
WorkerPublishRecoverableDrops(w) ==
    /\ wpc[w] = "publish"
    /\ recov < MaxRecoverable
    /\ recov' = recov + 1
    /\ wbody' = [wbody EXCEPT ![w] = Body(wlogs[w])]
    /\ Called(w)
    /\ wpc' = [wpc EXCEPT ![w] = "task_done"]
    /\ UNCHANGED wlogs
    /\ UNCHANGED handlerVars
    /\ UNCHANGED <<emitted, sealed, delivered, requeued, oks, acks, racks,
                   wretry, flushes, closes>>

\* Lines 73-77, publish_body raises errors.RecoverableError.
WorkerPublishRecoverable(w) ==
    /\ wpc[w] = "publish"
    /\ recov < MaxRecoverable
    /\ recov' = recov + 1
    /\ wbody' = [wbody EXCEPT ![w] = Body(wlogs[w])]
    /\ Called(w)
    /\ wretry' = [wretry EXCEPT ![w] = TRUE]
    /\ wpc' = [wpc EXCEPT ![w] = "requeue"]
    /\ UNCHANGED wlogs
    /\ UNCHANGED handlerVars
    /\ UNCHANGED <<emitted, sealed, delivered, requeued, oks, acks, racks,
                   flushes, closes>>

\* A handler of the other exceptions that logs and goes on with the loop.
WorkerPublishFatalSurvives(w) ==
    /\ wpc[w] = "publish"
    /\ wbody' = [wbody EXCEPT ![w] = Body(wlogs[w])]
    /\ Called(w)
    /\ wpc' = [wpc EXCEPT ![w] = "loop"]
    /\ UNCHANGED wlogs
    /\ UNCHANGED handlerVars
    /\ UNCHANGED <<emitted, sealed, delivered, requeued, oks, recov, acks,
                   racks, wretry, flushes, closes>>

\* Lines 73-76 and 82-85: any other exception (of the encoding or of
\* publish_body) is logged and send_loop returns.
WorkerPublishFatal(w) ==
    /\ wpc[w] = "publish"
    /\ wbody' = [wbody EXCEPT ![w] = Body(wlogs[w])]
    /\ Called(w)
    /\ wpc' = [wpc EXCEPT ![w] = "dead"]
    /\ UNCHANGED wlogs
    /\ UNCHANGED handlerVars
    /\ UNCHANGED <<emitted, sealed, delivered, requeued, oks, recov, acks,
                   racks, wretry, flushes, closes>>

\* A requeue that puts the batch back without counting it as a task.
WorkerRequeueUncounted(w) ==
    /\ wpc[w] = "requeue"
    /\ q' = Append(q, wlogs[w])
    /\ requeued' = Inc(requeued, wlogs[w])
    /\ wpc' = [wpc EXCEPT ![w] = "task_done"]
    /\ UNCHANGED <<wlogs, wbody>>
    /\ UNCHANGED <<buf, unfinished, should_exit, lock, ctl, sent, topic_calls>>
    /\ UNCHANGED <<emitted, sealed, tried, delivered, firstTry, oks, recov,
                   acks, racks, wretry, flushes, closes>>

\* A requeue that puts back the batch without its first record.
WorkerRequeueRest(w) ==
    /\ wpc[w] = "requeue"
    /\ q' = Append(q, Tail(wlogs[w]))
    /\ unfinished' = unfinished + 1
    /\ requeued' = Inc(requeued, wlogs[w])
    /\ wpc' = [wpc EXCEPT ![w] = "task_done"]
    /\ UNCHANGED <<wlogs, wbody>>
    /\ UNCHANGED <<buf, should_exit, lock, ctl, sent, topic_calls>>
    /\ UNCHANGED <<emitted, sealed, tried, delivered, firstTry, oks, recov,
                   acks, racks, wretry, flushes, closes>>

\* A requeue that puts back the first record of the batch only.
WorkerRequeueHead(w) ==
    /\ wpc[w] = "requeue"
    /\ q' = Append(q, <<Head(wlogs[w])>>)
    /\ unfinished' = unfinished + 1
    /\ requeued' = Inc(requeued, wlogs[w])
    /\ wpc' = [wpc EXCEPT ![w] = "task_done"]
    /\ UNCHANGED <<wlogs, wbody>>
    /\ UNCHANGED <<buf, should_exit, lock, ctl, sent, topic_calls>>
    /\ UNCHANGED <<emitted, sealed, tried, delivered, firstTry, oks, recov,
                   acks, racks, wretry, flushes, closes>>

\* A requeue that gives a batch up at its second failure.
WorkerRequeueOnce(w) ==
    /\ wpc[w] = "requeue"
    /\ IF requeued[wlogs[w][1]] = 0
       THEN /\ q' = Append(q, wlogs[w])
            /\ unfinished' = unfinished + 1
       ELSE UNCHANGED <<q, unfinished>>
    /\ requeued' = Inc(requeued, wlogs[w])
    /\ wpc' = [wpc EXCEPT ![w] = "task_done"]
    /\ UNCHANGED <<wlogs, wbody>>
    /\ UNCHANGED <<buf, should_exit, lock, ctl, sent, topic_calls>>
    /\ UNCHANGED <<emitted, sealed, tried, delivered, firstTry, oks, recov,
                   acks, racks, wretry, flushes, closes>>

\* Lines 80-81: q.put(logs); logger.exception(e)
WorkerRequeue(w) ==
    /\ wpc[w] = "requeue"
    /\ q' = Append(q, wlogs[w])
    /\ unfinished' = unfinished + 1
    /\ requeued' = Inc(requeued, wlogs[w])
    /\ wpc' = [wpc EXCEPT ![w] = "task_done"]
    /\ UNCHANGED <<wlogs, wbody>>
    /\ UNCHANGED <<buf, should_exit, lock, ctl, sent, topic_calls>>
    /\ UNCHANGED <<emitted, sealed, tried, delivered, firstTry, oks, recov,
                   acks, racks, wretry, flushes, closes>>

\* Line 86: q.task_done(); it raises ValueError, which ends the process,
\* when called more often than put().
WorkerTaskDone(w) ==
    /\ wpc[w] = "task_done"
    /\ IF unfinished > 0
       THEN /\ unfinished' = unfinished - 1
            /\ acks' = Counted(acks)
            /\ racks' = IF wretry[w] THEN Counted(racks) ELSE racks
            /\ wpc' = [wpc EXCEPT ![w] = "loop"]
       ELSE /\ wpc' = [wpc EXCEPT ![w] = "dead"]
            /\ UNCHANGED <<unfinished, acks, racks>>
    /\ wretry' = [wretry EXCEPT ![w] = FALSE]
    /\ wlogs' = [wlogs EXCEPT ![w] = <<>>]
    /\ wbody' = [wbody EXCEPT ![w] = NoBody]
    /\ UNCHANGED <<buf, q, should_exit, lock, ctl, sent, topic_calls>>
    /\ UNCHANGED <<emitted, sealed, tried, delivered, requeued, firstTry, oks,
                   recov, flushes, closes>>

WorkerStep(w) ==
    \/ WorkerLoop(w)
    \/ WorkerGet(w)
    \/ WorkerEmpty(w)
    \/ WorkerPublishOk(w)
    \/ WorkerPublishRecoverable(w)
    \/ WorkerPublishFatal(w)
    \/ WorkerRequeue(w)
    \/ WorkerTaskDone(w)

ControlStep ==
    \/ FlushEnter
    \/ FlushJoin
    \/ CloseEnter
    \/ CloseFlushJoin
    \/ CloseSetExit
    \/ CloseJoinWorkers

Next ==
    \/ \E p \in Producers : Emit(p)
    \/ ControlStep
    \/ \E w \in Workers : WorkerStep(w)

Spec == Init /\ [][Next]_vars

\* Every worker is a process of its own and keeps running; a flush() or
\* close() under way goes on as soon as what it waits for has happened.
ControlProgress ==
    \/ FlushJoin
    \/ CloseFlushJoin
    \/ CloseSetExit
    \/ CloseJoinWorkers

Fairness ==
    /\ \A w \in Workers : WF_vars(WorkerStep(w))
    /\ WF_vars(ControlProgress)

FairSpec == Spec /\ Fairness

----------------------------------------------------------------------------
\* The handler with a Publisher that is out of order: every publish_body
\* call raises errors.RecoverableError, without end.

\* Lines 73-77, publish_body raises errors.RecoverableError once more.
WorkerPublishFailsAgain(w) ==
    /\ wpc[w] = "publish"
    /\ recov' = Counted(recov)
    /\ wbody' = [wbody EXCEPT ![w] = Body(wlogs[w])]
    /\ Called(w)
    /\ wretry' = [wretry EXCEPT ![w] = TRUE]
    /\ wpc' = [wpc EXCEPT ![w] = "requeue"]
    /\ UNCHANGED wlogs
    /\ UNCHANGED handlerVars
    /\ UNCHANGED <<emitted, sealed, delivered, requeued, oks, acks, racks,
                   flushes, closes>>

RetryWorkerStep(w) ==
    \/ WorkerLoop(w)
    \/ WorkerGet(w)
    \/ WorkerEmpty(w)
    \/ WorkerPublishFailsAgain(w)
    \/ WorkerRequeue(w)
    \/ WorkerTaskDone(w)

RetryNext ==
    \/ \E p \in Producers : Emit(p)
    \/ ControlStep
    \/ \E w \in Workers : RetryWorkerStep(w)

RetryFairness ==
    /\ \A w \in Workers : WF_vars(RetryWorkerStep(w))
    /\ WF_vars(ControlProgress)

RetrySpec == Init /\ [][RetryNext]_vars /\ RetryFairness

----------------------------------------------------------------------------
\* AsyncPubsubHandler.__init__ step by step, followed by the handler's use.

CtorPositions == {"ctor_client", "ctor_topic", "ctor_start", "ctor_raised"}

\* The constructor has returned a handler.
Constructed == ctl \notin CtorPositions

Started(w) == wpc[w] # "unstarted"

\* Lines 109-113: __init__ entered.
CtorInit ==
    /\ NewHandler
    /\ ctl = "ctor_client"
    /\ topic_calls = 0
    /\ wpc = [w \in Workers |-> "unstarted"]

\* Lines 114-117: the client given, or the one get_pubsub_client() returns.
CtorClient ==
    /\ ctl = "ctor_client"
    /\ \E given \in BOOLEAN : ctl' = "ctor_topic"
    /\ UNCHANGED <<buf, q, unfinished, should_exit, lock, sent, topic_calls>>
    /\ UNCHANGED workerVars
    /\ UNCHANGED histVars

\* Lines 116-117: get_pubsub_client() raises; __init__ is left.
CtorClientRaises ==
    /\ ctl = "ctor_client"
    /\ ctl' = "ctor_raised"
    /\ UNCHANGED <<buf, q, unfinished, should_exit, lock, sent, topic_calls>>
    /\ UNCHANGED workerVars
    /\ UNCHANGED histVars

\* Line 119: get_or_create_topic(self._client, self._topic, retry) returns.
CtorTopic ==
    /\ ctl = "ctor_topic"
    /\ topic_calls' = topic_calls + 1
    /\ ctl' = "ctor_start"
    /\ UNCHANGED <<buf, q, unfinished, should_exit, lock, sent>>
    /\ UNCHANGED workerVars
    /\ UNCHANGED histVars

\* Line 119: get_or_create_topic raises; __init__ is left.
CtorTopicRaises ==
    /\ ctl = "ctor_topic"
    /\ topic_calls' = topic_calls + 1
    /\ ctl' = "ctor_raised"
    /\ UNCHANGED <<buf, q, unfinished, should_exit, lock, sent>>
    /\ UNCHANGED workerVars
    /\ UNCHANGED histVars

\* A loop that ensures the topic for every worker it starts.
CtorStartWorkerEnsuresTopic(w) ==
    /\ ctl = "ctor_start"
    /\ ~Started(w)
    /\ \A v \in Workers : (v < w) => Started(v)
    /\ topic_calls' = topic_calls + 1
    /\ wpc' = [wpc EXCEPT ![w] = "loop"]
    /\ UNCHANGED <<wlogs, wbody>>
    /\ UNCHANGED <<buf, q, unfinished, should_exit, lock, ctl, sent>>
    /\ UNCHANGED histVars

\* Lines 123-129, one turn of the loop: the next process is created and
\* started.
CtorStartWorker(w) ==
    /\ ctl = "ctor_start"
    /\ ~Started(w)
    /\ \A v \in Workers : (v < w) => Started(v)
    /\ wpc' = [wpc EXCEPT ![w] = "loop"]
    /\ UNCHANGED <<wlogs, wbody>>
    /\ UNCHANGED handlerVars
    /\ UNCHANGED histVars

\* Line 123: the loop is over, __init__ returns.
CtorReturn ==
    /\ ctl = "ctor_start"
    /\ \A w \in Workers : Started(w)
    /\ ctl' = "idle"
    /\ UNCHANGED <<buf, q, unfinished, should_exit, lock, sent, topic_calls>>
    /\ UNCHANGED workerVars
    /\ UNCHANGED histVars

CtorStep ==
    \/ CtorClient
    \/ CtorClientRaises
    \/ CtorTopic
    \/ CtorTopicRaises
    \/ \E w \in Workers : CtorStartWorker(w)
    \/ CtorReturn

CtorNext ==
    \/ CtorStep
    \/ (Constructed /\ \E p \in Producers : Emit(p))
    \/ ControlStep
    \/ \E w \in Workers : WorkerStep(w)

CtorSpec == CtorInit /\ [][CtorNext]_vars

----------------------------------------------------------------------------
\* Vocabulary of the properties

\* Worker w has dequeued a batch and not yet called task_done for it.
Holding(w) == wpc[w] \in {"publish", "requeue", "task_done"}

\* Worker w has left send_loop.
Terminated(w) == wpc[w] \in {"exited", "dead"}

DeadWorkers == {w \in Workers : wpc[w] = "dead"}

\* The records of a batch are in the order emit received them.
InOrder(b) == \A i, j \in 1..Len(b) : i < j => b[i] < b[j]

\* The step in which a flush() (called directly or by close()) returns.
FlushReturns == ctl \in {"f_join", "c_join"} /\ ctl' \notin {"f_join", "c_join"}

\* The step in which close() returns.
CloseReturns == ctl = "c_wait" /\ ctl' = "idle"

----------------------------------------------------------------------------
\* C1

\* C1 as stated: when a flush() returns, every record submitted so far has
\* been handed to the Publisher in exactly one call (none missing, none seen
\* twice), and every batch handed to the Publisher is in submission order.
C1_EachRecordObservedOnce ==
    [][FlushReturns =>
          /\ \A r \in Range(emitted) : tried[r] = 1
          /\ \A r \in Range(emitted) : InOrder(firstTry[r])]_vars

\* C1 as amended: when a flush() returns, every record submitted so far has
\* been published successfully exactly once; the Publisher has seen it once
\* more for every recoverable failure of its batch; every batch handed to
\* the Publisher is in submission order.
C1_EachRecordDeliveredOnce ==
    [][FlushReturns =>
          /\ \A r \in Range(emitted) :
                /\ delivered[r] = 1
                /\ tried[r] = 1 + requeued[r]
                /\ InOrder(firstTry[r])
                /\ r \in Range(firstTry[r])
          /\ \A r \in Records \ Range(emitted) : tried[r] = 0]_vars

\* A flush() has returned after every record was submitted, one batch having
\* failed recoverably on the way.
C1_Witness ==
    /\ flushes = 1
    /\ Len(emitted) = MaxRecords
    /\ \E r \in Records : requeued[r] > 0
    /\ \A r \in Records : delivered[r] = 1

----------------------------------------------------------------------------
\* C2

\* C2: a worker that terminated on a non-recoverable error has acknowledged
\* its batch first: the counter holds no unit for a batch that is neither
\* queued nor in the hands of a running worker (so a flush() waiting on that
\* batch can return).
C2_FatalFailureAcknowledged ==
    (DeadWorkers # {}) =>
        unfinished = Len(q) + Cardinality({w \in Workers : Holding(w)})

----------------------------------------------------------------------------
\* C3

\* C3: flush() first pushes the partial buffer, if any, as one batch; it
\* returns only with the counter at zero, the buffer empty, the queue empty
\* and no worker holding a batch; whenever the counter is zero no batch is
\* queued or held, so it is never zero while a batch waits for its retry.
C3_FlushReturnsDrained ==
    /\ [][(ctl = "idle" /\ ctl' \in {"f_join", "c_join"}) =>
             /\ buf' = <<>>
             /\ q' = IF buf = <<>> THEN q ELSE Append(q, buf)]_vars
    /\ [][FlushReturns =>
             /\ unfinished = 0
             /\ buf = <<>>
             /\ q = <<>>
             /\ \A w \in Workers : ~Holding(w)]_vars
    /\ [](unfinished = 0 => (q = <<>> /\ \A w \in Workers : ~Holding(w)))

\* A flush() pushed a partial buffer and returned after that batch had been
\* requeued and then published.
C3_Witness ==
    /\ flushes = 1
    /\ ctl = "idle"
    /\ emitted = <<1>>
    /\ requeued[1] > 0
    /\ delivered[1] = 1
    /\ unfinished = 0

----------------------------------------------------------------------------
\* C4

\* The batch of r failed recoverably and line 80 has not yet put it back.
AwaitsRequeue(r) ==
    \E w \in Workers : wpc[w] = "requeue" /\ r \in Range(wlogs[w])

\* The batch of r was dropped by a worker that left on a fatal failure.
Dropped(r) ==
    \E w \in DeadWorkers : r \in Range(wlogs[w])

\* r has left the buffer in a batch.
Pushed(r) == r \in Range(emitted) /\ r \notin Range(buf)

\* C4: a batch that fails recoverably k times and then succeeds is attempted
\* exactly k+1 times, every failed attempt is followed by exactly one
\* requeue, the counter is zero only once the batch has been published, and
\* every attempt carries the batch of the first attempt (same records, same
\* order).
C4_RetryThenDeliver ==
    \A r \in Records :
        /\ delivered[r] <= 1
        /\ tried[r] = requeued[r] + delivered[r]
                        + (IF AwaitsRequeue(r) THEN 1 ELSE 0)
                        + (IF Dropped(r) THEN 1 ELSE 0)
        /\ (delivered[r] = 1) => (tried[r] = requeued[r] + 1)
        /\ (unfinished = 0 /\ Pushed(r)) => (delivered[r] = 1)
        /\ \A w \in Workers :
              (wlogs[w] # <<>> /\ r \in Range(wlogs[w]) /\ tried[r] > 0)
                  => (wlogs[w] = firstTry[r])
        /\ \A i \in 1..Len(q) :
              (r \in Range(q[i]) /\ tried[r] > 0) => (q[i] = firstTry[r])

\* A batch failed twice, was requeued twice and was published by the third
\* attempt, after which the counter is zero.
C4_Witness ==
    \E r \in Records :
        /\ tried[r] = 3
        /\ requeued[r] = 2
        /\ delivered[r] = 1
        /\ unfinished = 0

----------------------------------------------------------------------------
\* C5

\* C5: task_done is called exactly once for every batch that reached success
\* or fatal failure, and never for a batch that is requeued.
C5_AckOncePerFinishedUnit ==
    /\ racks = 0
    /\ acks + Cardinality({w \in Workers : wpc[w] = "task_done" /\ ~wretry[w]})
          = oks + Cardinality(DeadWorkers)

----------------------------------------------------------------------------
\* C6

RECURSIVE SumOver(_, _)
SumOver(f, S) ==
    IF S = {} THEN 0
    ELSE LET x == CHOOSE y \in S : TRUE IN f[x] + SumOver(f, S \ {x})

Occurrences(b, r) == Cardinality({i \in 1..Len(b) : b[i] = r})

\* How many batches under way (buffer, queue, workers that have not finished
\* their attempt) hold r, plus its deliveries and its loss to a fatal failure.
Copies(r) ==
    Occurrences(buf, r)
    + SumOver([i \in 1..Len(q) |-> Occurrences(q[i], r)], 1..Len(q))
    + Cardinality({w \in Workers :
                     wpc[w] \in {"publish", "requeue"} /\ r \in Range(wlogs[w])})
    + delivered[r]
    + Cardinality({w \in DeadWorkers : r \in Range(wlogs[w])})

\* C6: whatever the interleaving of the producers, every record a producer
\* submitted is in exactly one place (buffer, one queued batch, one worker's
\* attempt, delivered once, or dropped with a worker that met a fatal
\* failure), so none is duplicated and none is lost short of a fatal failure;
\* when a flush() returns, the successful deliveries total exactly the
\* records the producers submitted, retries included.
C6_ConcurrentSubmission ==
    /\ [](SumOver(sent, Producers) = Len(emitted))
    /\ [](\A r \in Records :
            Copies(r) = IF r \in Range(emitted) THEN 1 ELSE 0)
    /\ [][FlushReturns =>
             /\ SumOver(delivered, Records) = SumOver(sent, Producers)
             /\ \A r \in Range(emitted) : delivered[r] = 1]_vars

\* Both producers have submitted, every record was submitted, one batch was
\* requeued, and a flush() returned with every record delivered.
C6_Witness ==
    /\ \A p \in Producers : sent[p] > 0
    /\ SumOver(sent, Producers) = MaxRecords
    /\ recov > 0
    /\ flushes = 1
    /\ SumOver(delivered, Records) = MaxRecords

----------------------------------------------------------------------------
\* C7

\* The thread that holds the handler's lock is waiting for the workers.
LockHolderWaitsForWorkers ==
    /\ lock > 0
    /\ \/ ctl \in {"f_join", "c_join"} /\ unfinished > 0
       \/ ctl = "c_wait" /\ \E w \in Workers : ~Terminated(w)

\* C7: a producer that submits a record never has to wait for worker
\* progress, also while another thread is inside flush() or close(); and no
\* record is lost or put in two batches.
C7_SubmitNeverWaits ==
    /\ ~LockHolderWaitsForWorkers
    /\ \A r \in Range(emitted) : Copies(r) = 1

----------------------------------------------------------------------------
\* C8

\* C8: close() runs a final flush(), then sets the exit flag, then waits for
\* every worker: the flag is set only with the buffer and the queue empty and
\* the counter zero, the wait starts only with the flag set, and when close()
\* returns every worker has terminated, the buffer and the queue are empty
\* and the counter is zero. With workers that run on and no fatal failure, a
\* close() called while the workers run eventually returns.
C8_CloseDrainsThenStops ==
    /\ [][(should_exit' # should_exit) =>
             /\ ctl = "c_exit"
             /\ should_exit' = 1
             /\ unfinished = 0 /\ buf = <<>> /\ q = <<>>
             /\ \A w \in Workers : ~Holding(w)]_vars
    /\ [](ctl = "c_wait" => should_exit = 1)
    /\ [][CloseReturns =>
             /\ should_exit = 1
             /\ \A w \in Workers : Terminated(w)
             /\ unfinished = 0 /\ buf = <<>> /\ q = <<>>]_vars
    /\ ([](DeadWorkers = {}) =>
           ((ctl = "c_join" /\ should_exit = 0) ~> (closes >= 1)))

\* close() has returned after every record was submitted and one batch was
\* requeued.
C8_Witness ==
    /\ closes = 1
    /\ ctl = "idle"
    /\ Len(emitted) = MaxRecords
    /\ recov > 0
    /\ \A w \in Workers : wpc[w] = "exited"

----------------------------------------------------------------------------
\* C9

\* Nothing was submitted since the records that have been delivered.
NothingPending == \A r \in Range(emitted) : delivered[r] = 1

\* C9: once a close() has returned and as long as nothing is submitted after
\* it, the flag is set, every worker has terminated and the buffer, the queue
\* and the counter are empty, also all through a second close(): neither of
\* its waits blocks, and it changes nothing.
C9_SecondCloseChangesNothing ==
    (closes >= 1 /\ NothingPending) =>
        /\ should_exit = 1
        /\ \A w \in Workers : wpc[w] = "exited"
        /\ buf = <<>> /\ q = <<>> /\ unfinished = 0
        /\ (ctl = "c_join") => (unfinished = 0)
        /\ (ctl = "c_wait") => (\A w \in Workers : Terminated(w))

\* A second close() has returned.
C9_Witness ==
    /\ closes = 2
    /\ ctl = "idle"
    /\ emitted # <<>>
    /\ NothingPending

----------------------------------------------------------------------------
\* C10

\* C10: the emit that brings the buffer to BATCH_SIZE records pushes them as
\* one batch in the same step and starts an empty buffer; an emit that leaves
\* it shorter pushes nothing; so the buffer is always shorter than BATCH_SIZE
\* and every batch pushed by emit has BATCH_SIZE records; a publish_body call
\* for such a batch carries exactly BATCH_SIZE messages.
C10_BatchSealing ==
    /\ [](Len(buf) < BATCH_SIZE)
    /\ [](\A b \in sealed : Len(b) = BATCH_SIZE)
    /\ [][(emitted' # emitted) =>
             LET record == emitted'[Len(emitted')] IN
             IF Len(buf) + 1 = BATCH_SIZE
             THEN /\ q' = Append(q, Append(buf, record))
                  /\ buf' = <<>>
                  /\ unfinished' = unfinished + 1
             ELSE /\ buf' = Append(buf, record)
                  /\ UNCHANGED <<q, unfinished>>]_vars
    /\ [](\A w \in Workers :
            (wpc[w] \in {"requeue", "task_done", "dead"} /\ wlogs[w] \in sealed)
                => (Len(wbody[w].messages) = BATCH_SIZE))

\* With no flush() or close() called, a batch sealed by emit has been
\* published in one call.
C10_Witness ==
    /\ flushes = 0 /\ closes = 0 /\ ctl = "idle"
    /\ \E w \in Workers :
          /\ wpc[w] = "task_done"
          /\ ~wretry[w]
          /\ wlogs[w] \in sealed
          /\ Len(wlogs[w]) = BATCH_SIZE
          /\ Len(wbody[w].messages) = BATCH_SIZE

----------------------------------------------------------------------------
\* C11

\* Every batch that is queued, in a worker's hands or was handed to the
\* Publisher.
KnownBatches ==
    Range(q)
    \cup {wlogs[w] : w \in {v \in Workers : wlogs[v] # <<>>}}
    \cup {firstTry[r] : r \in {x \in Records : tried[x] > 0}}

\* C11: a batch is never split. What a worker puts back after a recoverable
\* failure is the very batch it dequeued, records unencoded and in order; and
\* in every state the records of one batch share their fate: two batches
\* that share a record are the same batch, and the records of a batch are
\* queued together, tried, requeued and delivered equally often, and dropped
\* together on a fatal failure.
C11_BatchNeverSplit ==
    /\ [][\A w \in Workers :
             (wpc[w] = "requeue" /\ wpc'[w] # "requeue") =>
                 /\ q' = Append(q, wlogs[w])
                 /\ Range(wlogs[w]) \subseteq Records
                 /\ wlogs[w] = firstTry[wlogs[w][1]]]_vars
    /\ [](\A b1, b2 \in KnownBatches :
            (Range(b1) \cap Range(b2) # {}) => (b1 = b2))
    /\ [](\A b \in KnownBatches : \A r1, r2 \in Range(b) :
            /\ tried[r1] = tried[r2]
            /\ requeued[r1] = requeued[r2]
            /\ delivered[r1] = delivered[r2]
            /\ Dropped(r1) = Dropped(r2)
            /\ \A i \in 1..Len(q) : (r1 \in Range(q[i])) = (r2 \in Range(q[i])))

\* A batch of BATCH_SIZE records is back on the queue after a recoverable
\* failure while another batch was dropped whole by a fatal failure.
C11_Witness ==
    /\ \E i \in 1..Len(q) :
          /\ Len(q[i]) = BATCH_SIZE
          /\ \A r \in Range(q[i]) : requeued[r] = 1
    /\ \E w \in DeadWorkers : wlogs[w] # <<>>

----------------------------------------------------------------------------
\* C12

\* Every worker has left send_loop on a fatal failure.
PoolExhausted == \A w \in Workers : wpc[w] = "dead"

\* C12: no failure of the pipeline reaches the application: also once every
\* worker has terminated on a fatal failure a submit is accepted, that is,
\* the lock it needs is not in the hands of a thread that waits for the
\* workers.
C12_SubmitAcceptedWhenExhausted ==
    PoolExhausted => ~LockHolderWaitsForWorkers

----------------------------------------------------------------------------
\* C13

\* C13: the exit protocol. Once the exit flag is set every worker eventually
\* terminates. A worker leaves through the exit path only from the loop
\* test and only with the flag set; a worker whose poll of the empty queue
\* timed out goes to the loop test next, where a set flag makes it leave;
\* and a worker that holds a batch finishes the publish call (success,
\* requeue or fatal failure) before it comes to the loop test.
C13_ExitProtocol ==
    /\ (should_exit = 1) ~> (\A w \in Workers : Terminated(w))
    /\ [][\A w \in Workers :
             /\ (wpc'[w] = "exited" /\ wpc[w] # "exited") =>
                    (should_exit = 1 /\ wpc[w] = "loop")
             /\ (wpc[w] = "loop" /\ wpc'[w] # "loop" /\ should_exit = 1) =>
                    (wpc'[w] = "exited")
             /\ (wpc[w] = "get" /\ wpc'[w] # "get" /\ q = <<>>) =>
                    (wpc'[w] = "loop")
             /\ (wpc[w] = "publish" /\ wpc'[w] # "publish") =>
                    (wpc'[w] \in {"task_done", "requeue", "dead"})
             /\ (wpc[w] = "requeue" /\ wpc'[w] # "requeue") =>
                    (wpc'[w] = "task_done")]_vars

\* The flag is set, one worker has left through the exit path and another is
\* still inside its poll of the empty queue.
C13_Witness ==
    /\ should_exit = 1
    /\ \E w \in Workers : wpc[w] = "exited"
    /\ \E w \in Workers : wpc[w] = "get" /\ q = <<>>

----------------------------------------------------------------------------
\* C15

\* The workers that have not left send_loop.
LiveWorkers == {w \in Workers : ~Terminated(w)}

\* C15: a publish attempt that ends neither in a delivery nor in a
\* recoverable failure leaves its worker terminated; a terminated worker
\* stays terminated and takes no further batch; the set of live workers
\* never gains a member; and as long as a worker is live a non-empty queue
\* is eventually drained.
C15_FatalFailureEndsWorkerOnly ==
    /\ [][\A w \in Workers :
             /\ (wpc[w] = "publish" /\ wpc'[w] # "publish"
                    /\ oks' = oks /\ recov' = recov) => (wpc'[w] = "dead")
             /\ Terminated(w) =>
                    (wpc'[w] = wpc[w] /\ wlogs'[w] = wlogs[w])]_vars
    /\ [][LiveWorkers' \subseteq LiveWorkers]_vars
    /\ ((q # <<>> /\ LiveWorkers # {}) ~> (q = <<>> \/ LiveWorkers = {}))

\* One worker was ended by a fatal failure on the first batch; the record
\* submitted after that batch has been delivered by another worker.
C15_Witness ==
    /\ \E v \in DeadWorkers : wlogs[v] = <<1, 2>>
    /\ delivered[3] = 1
    /\ LiveWorkers # {}

----------------------------------------------------------------------------
\* C16

\* C16: every batch put on the queue, by emit, by flush() or by a requeue,
\* has at least one and at most BATCH_SIZE records, and so has every batch a
\* worker holds; after every emit the buffer is shorter than BATCH_SIZE; and
\* a flush() or close() that finds the buffer empty puts nothing on the
\* queue.
C16_BatchSizeBounds ==
    /\ [][(Len(q') > Len(q)) =>
             /\ Len(q'[Len(q')]) >= 1
             /\ Len(q'[Len(q')]) <= BATCH_SIZE]_vars
    /\ [](\A b \in KnownBatches : Len(b) >= 1 /\ Len(b) <= BATCH_SIZE)
    /\ [][(emitted' # emitted) => (Len(buf') < BATCH_SIZE)]_vars
    /\ [][(ctl = "idle" /\ ctl' # "idle" /\ buf = <<>>) =>
             UNCHANGED <<q, unfinished, buf>>]_vars

\* A flush() that found the buffer empty is waiting while the queue holds a
\* batch of BATCH_SIZE records that was put back after a failure.
C16_Witness ==
    /\ ctl = "f_join"
    /\ Len(emitted) = BATCH_SIZE
    /\ Len(q) = 1
    /\ Len(q[1]) = BATCH_SIZE
    /\ requeued[q[1][1]] = 1

----------------------------------------------------------------------------
\* C17

\* The worker has built the body of its current attempt.
BodyBuilt(w) == wpc[w] \in {"requeue", "task_done", "dead"}

\* C17: the body of every attempt, first or repeated, has exactly one
\* message per record of the batch, and its i-th message is the encoding of
\* the i-th record; the records of the batch are in submission order, and
\* records that differ have encodings that differ.
C17_PayloadMatchesBatch ==
    \A w \in Workers :
        BodyBuilt(w) =>
            /\ Len(wbody[w].messages) = Len(wlogs[w])
            /\ \A i \in 1..Len(wlogs[w]) :
                  wbody[w].messages[i] = [data |-> Encode(wlogs[w][i])]
            /\ InOrder(wlogs[w])
            /\ \A i, j \in 1..Len(wlogs[w]) :
                  (i # j) => (wbody[w].messages[i] # wbody[w].messages[j])

\* A batch of BATCH_SIZE records has been published at its second attempt.
C17_Witness ==
    \E w \in Workers :
        /\ wpc[w] = "task_done"
        /\ ~wretry[w]
        /\ Len(wlogs[w]) = BATCH_SIZE
        /\ tried[wlogs[w][1]] = 2

----------------------------------------------------------------------------
\* C19

\* Number of q.put calls so far: one per batch that left the buffer and one
\* per requeue.
Puts ==
    Cardinality(KnownBatches)
    + SumOver(requeued, {b[1] : b \in KnownBatches})

\* C19: as long as no worker has terminated on a fatal failure the counter
\* of the queue equals the number of queued batches plus the number of
\* workers that have dequeued a batch and not yet called task_done for it;
\* the counter is never negative; task_done is never called more often than
\* put, and each call finds the counter positive and takes one off it.
C19_CounterAccounting ==
    /\ [](DeadWorkers = {} =>
            unfinished = Len(q) + Cardinality({w \in Workers : Holding(w)}))
    /\ [](unfinished >= 0)
    /\ [](acks <= Puts /\ unfinished = Puts - acks)
    /\ [][\A w \in Workers :
             (wpc[w] = "task_done" /\ wpc'[w] # "task_done") =>
                 /\ unfinished >= 1
                 /\ unfinished' = unfinished - 1
                 /\ wpc'[w] = "loop"]_vars

\* Both workers hold a batch, one of them after a requeue, while that
\* requeued batch is queued again.
C19_Witness ==
    /\ DeadWorkers = {}
    /\ Len(q) = 1
    /\ unfinished = 3
    /\ \E w \in Workers : wpc[w] = "task_done" /\ wretry[w]
    /\ \E w \in Workers : wpc[w] = "publish"

----------------------------------------------------------------------------
\* C20

\* Worker w leaves send_loop through the loop test.
ExitsByFlag(w) == wpc[w] # "exited" /\ wpc'[w] = "exited"

\* C20: a worker leaves through the exit flag only while close() waits for
\* the workers, and at that moment the buffer and the queue are empty, the
\* counter is zero, no worker holds a batch and every record submitted so
\* far has been delivered; and when close() returns no record submitted
\* before it is left in the buffer, in the queue or in a worker's hands.
C20_CloseStrandsNothing ==
    /\ [][\A w \in Workers :
             ExitsByFlag(w) =>
                 /\ ctl = "c_wait"
                 /\ buf = <<>> /\ q = <<>> /\ unfinished = 0
                 /\ wlogs[w] = <<>>
                 /\ \A v \in Workers : ~Holding(v)
                 /\ \A r \in Range(emitted) : delivered[r] = 1]_vars
    /\ [][CloseReturns =>
             \A r \in Range(emitted) :
                 /\ delivered[r] = 1
                 /\ r \notin Range(buf)
                 /\ \A i \in 1..Len(q) : r \notin Range(q[i])
                 /\ \A v \in Workers : r \notin Range(wlogs[v])]_vars

\* close() was called with a record in the buffer; that record has been
\* delivered and the first worker has left through the exit flag while
\* close() waits for the others.
C20_Witness ==
    /\ ctl = "c_wait"
    /\ Len(emitted) = 1
    /\ delivered[1] = 1
    /\ \E w \in Workers : wpc[w] = "exited"
    /\ \E w \in Workers : wpc[w] # "exited"

----------------------------------------------------------------------------
\* C14

\* Worker w is between a failed publish_body call and the requeue of r's
\* batch.
Attempted(w, r) == wpc[w] = "requeue" /\ r \in Range(wlogs[w])

\* C14: retries have no bound. With a Publisher that fails recoverably at
\* every call, a counter that is above zero never comes back to zero, so a
\* flush() or close() returns only if no batch was ever put on the queue; no
\* record is delivered or dropped and every record that left the buffer
\* stays in exactly one batch; no worker terminates unless close() has set
\* the flag; and with the workers running every record that has left the
\* buffer is attempted again and again, whichever batch it is in.
C14_RetriesWithoutBound ==
    /\ [][(unfinished > 0) => (unfinished' > 0)]_vars
    /\ [][FlushReturns => (KnownBatches = {})]_vars
    /\ [](\A r \in Records :
            /\ delivered[r] = 0
            /\ ~Dropped(r)
            /\ Pushed(r) => (unfinished > 0 /\ Copies(r) = 1))
    /\ [](DeadWorkers = {})
    /\ []((should_exit = 0) => (LiveWorkers = Workers))
    /\ \A r \in Records :
          /\ (Pushed(r) /\ should_exit = 0) ~>
                 (\E w \in Workers : Attempted(w, r))
          /\ (\E w \in Workers : Attempted(w, r)) ~>
                 (\E i \in 1..Len(q) : r \in Range(q[i]))

\* Two batches are under way, each has failed more than once, and the
\* Publisher has failed more often than MaxRecoverable times.
C14_Witness ==
    /\ recov > MaxRecoverable
    /\ \E b1, b2 \in KnownBatches :
          /\ b1 # b2
          /\ tried[b1[1]] >= 2
          /\ tried[b2[1]] >= 2

----------------------------------------------------------------------------
\* C18

\* C18: the constructor ensures the topic exactly once and before any
\* worker starts. get_or_create_topic is called at most once, with no worker
\* started; a worker is started only after that call has returned; if the
\* call raises, no worker is or will be started; and a constructor that has
\* returned has made exactly one call and started every worker, whatever
\* their number.
C18_TopicEnsuredOnceBeforeWorkers ==
    /\ [](topic_calls <= 1)
    /\ [][(topic_calls' # topic_calls) =>
             /\ topic_calls' = topic_calls + 1
             /\ ctl = "ctor_topic"
             /\ \A w \in Workers : ~Started(w) /\ wpc'[w] = wpc[w]]_vars
    /\ [](\A w \in Workers :
            Started(w) =>
                (topic_calls = 1 /\ ctl \notin {"ctor_client", "ctor_topic",
                                                 "ctor_raised"}))
    /\ []((ctl = "ctor_raised") => (\A w \in Workers : ~Started(w)))
    /\ [](Constructed =>
            (topic_calls = 1 /\ \A w \in Workers : Started(w)))

\* The topic has been ensured, the first worker is already polling the
\* queue and the constructor has yet to start the last one.
C18_Witness ==
    /\ ctl = "ctor_start"
    /\ topic_calls = 1
    /\ wpc[1] = "get"
    /\ ~Started(NumWorkers)

====
